---- MODULE Spec2Model ----
(***************************************************************************)
(* TaskWeather: an express application over one mongoose model (Task) and  *)
(* one outbound call to the OpenWeather API (src/index.js,                 *)
(* src/models/Task.js).                                                    *)
(*                                                                         *)
(* Strings that the handlers take apart (req.body.taskDate,                *)
(* req.body.taskTime) are sequences of one-character strings, so that      *)
(* String.prototype.split and parseInt are computed as JavaScript computes *)
(* them.  A Date is an Invalid Date or [day, min]: the day number since    *)
(* 1970-01-01 and the minute within that day, both UTC.                    *)
(***************************************************************************)
EXTENDS Integers, Sequences, FiniteSets, TLC

\* JavaScript undefined / null where a string is expected: a value that is no
\* sequence of characters.
NULL == <<"undefined">>

\* A Number is [nan, v]; NaN is the Number with nan set.
Num(v) == [nan |-> FALSE, v |-> v]
NaN == [nan |-> TRUE, v |-> 0]

\* A Date is [nan, day, min]; an Invalid Date (time value NaN) has nan set.
InvalidDate == [nan |-> TRUE, day |-> 0, min |-> 0]

\* ------------------------------------------------------------------------
\* JavaScript built-ins used by app.post('/add')
\* ------------------------------------------------------------------------

Digits == <<"0", "1", "2", "3", "4", "5", "6", "7", "8", "9">>

IsDigit(c) == \E i \in 1..10 : Digits[i] = c

DigitVal(c) == (CHOOSE i \in 1..10 : Digits[i] = c) - 1

IsSpace(c) == c = " "

\* String.prototype.split(sep) for a one-character separator: the pieces
\* between the separators, empty pieces included.
RECURSIVE SplitFrom(_, _, _, _)
SplitFrom(s, sep, i, cur) ==
    IF i > Len(s) THEN <<cur>>
    ELSE IF s[i] = sep THEN <<cur>> \o SplitFrom(s, sep, i + 1, <<>>)
    ELSE SplitFrom(s, sep, i + 1, Append(cur, s[i]))

Split(s, sep) == SplitFrom(s, sep, 1, <<>>)

\* dateParts[i] / timeParts[i] with a 0-based index: undefined past the end.
At(parts, i) == IF i + 1 <= Len(parts) THEN parts[i + 1] ELSE NULL

RECURSIVE SkipSpaces(_, _)
SkipSpaces(s, i) ==
    IF i <= Len(s) /\ IsSpace(s[i]) THEN SkipSpaces(s, i + 1) ELSE i

RECURSIVE DigitsFrom(_, _, _, _)
DigitsFrom(s, i, acc, seen) ==
    IF i <= Len(s) /\ IsDigit(s[i])
    THEN DigitsFrom(s, i + 1, 10 * acc + DigitVal(s[i]), TRUE)
    ELSE IF seen THEN Num(acc) ELSE NaN

\* parseInt(x) with no radix: the argument is read as optional white space,
\* an optional sign and the longest run of decimal digits; whatever follows
\* the digits is ignored, and no digit at all (undefined included) gives NaN.
ParseInt(x) ==
    LET i == SkipSpaces(x, 1)
        neg == i <= Len(x) /\ x[i] = "-"
        pos == i <= Len(x) /\ x[i] = "+"
        j == IF neg \/ pos THEN i + 1 ELSE i
        n == DigitsFrom(x, j, 0, FALSE)
    IN IF n.nan THEN NaN ELSE IF neg THEN Num(0 - n.v) ELSE n

\* x - k on a Number that may be NaN.
Minus(x, k) == IF x.nan THEN NaN ELSE Num(x.v - k)

\* a || b on strings: undefined and "" are falsy.
OrElse(a, b) == IF a = NULL \/ a = <<>> THEN b ELSE a

\* Truthiness of a body field: undefined and "" are falsy.
Truthy(x) == x # NULL /\ x # <<>>

\* ECMAScript DayFromYear(y).
DayFromYear(y) ==
    365 * (y - 1970) + ((y - 1969) \div 4) - ((y - 1901) \div 100)
        + ((y - 1601) \div 400)

InLeapYear(y) == (y % 4 = 0) /\ ((y % 100 # 0) \/ (y % 400 = 0))

\* Days before month m (0-based) within a year.
DaysBeforeMonth(m, leap) ==
    LET base == <<0, 31, 59, 90, 120, 151, 181, 212, 243, 273, 304, 334>>
    IN base[m + 1] + (IF leap /\ m >= 2 THEN 1 ELSE 0)

\* ECMAScript MakeDay(year, month, date): month and date roll over.
MakeDay(year, month, date) ==
    LET ym == year + (month \div 12)
        mn == month % 12
    IN DayFromYear(ym) + DaysBeforeMonth(mn, InLeapYear(ym)) + date - 1

MaxDay == 100000000

\* ECMAScript TimeClip: beyond 8.64e15 ms from the epoch the Date is invalid.
TimeClip(t) ==
    IF \/ (t.day > 0 - MaxDay /\ t.day < MaxDay)
       \/ (t.day = MaxDay /\ t.min = 0)
       \/ (t.day = 0 - MaxDay)
    THEN t ELSE InvalidDate

\* new Date(Date.UTC(year, month, day, hours, minutes)): NaN in any argument
\* gives an Invalid Date; a year of 0..99 means 1900 + year; hours and
\* minutes out of range roll over into the day.
DateUTC(year, month, day, hours, minutes) ==
    IF year.nan \/ month.nan \/ day.nan \/ hours.nan \/ minutes.nan
    THEN InvalidDate
    ELSE LET yr == IF year.v >= 0 /\ year.v <= 99 THEN 1900 + year.v ELSE year.v
             total == hours.v * 60 + minutes.v
         IN TimeClip([nan |-> FALSE,
                      day |-> MakeDay(yr, month.v, day.v) + (total \div 1440),
                      min |-> total % 1440])

\* taskDateObj of app.post('/add').
TaskDateObj(body) ==
    LET dateParts == Split(body.taskDate, "-")
        year == ParseInt(At(dateParts, 0))
        month == Minus(ParseInt(At(dateParts, 1)), 1)
        day == ParseInt(At(dateParts, 2))
    IN IF Truthy(body.taskTime)
       THEN LET timeParts == Split(body.taskTime, ":")
                hours == ParseInt(At(timeParts, 0))
                minutes == ParseInt(OrElse(At(timeParts, 1), <<"0">>))
            IN DateUTC(year, month, day, hours, minutes)
       ELSE DateUTC(year, month, day, Num(0), Num(0))

\* ------------------------------------------------------------------------
\* Request bodies
\* ------------------------------------------------------------------------

\* A number written with at least w decimal digits, as the date and time
\* inputs of the add-task form write it.
RECURSIVE Pad(_, _)
Pad(n, w) ==
    IF w <= 1 /\ n < 10 THEN <<Digits[n + 1]>>
    ELSE Append(Pad(n \div 10, w - 1), Digits[(n % 10) + 1])

DateStr(y, m, d) == Pad(y, 4) \o <<"-">> \o Pad(m, 2) \o <<"-">> \o Pad(d, 2)

TimeStr(h, mi) == Pad(h, 2) \o <<":">> \o Pad(mi, 2)

Run == <<"r", "u", "n">>
Oslo == <<"O", "s", "l", "o">>
NO == <<"N", "O">>

Body(activity, city, country, taskDate, taskTime) ==
    [activity |-> activity, city |-> city, state |-> NULL, country |-> country,
     taskDate |-> taskDate, taskTime |-> taskTime]

\* The dates of the bodies posted to /add: possible dates, impossible
\* dates of the right shape, and strings of another shape.
FormDates ==
    { DateStr(2024, 2, 29), DateStr(2023, 12, 31), DateStr(50, 2, 1),
      DateStr(2023, 2, 29), DateStr(2024, 2, 31), DateStr(2024, 13, 40),
      DateStr(2024, 0, 10) }

OddDates ==
    { NULL, <<"a", "b", "c">>,
      <<"2", "0", "2", "4", "-", "3", "-", "5">>,
      <<"2", "0", "2", "4", "0", "3", "0", "5">>,
      DateStr(2024, 3, 5) \o <<"x">>,
      <<"3", "0", "0", "0", "0", "0", "-", "0", "1", "-", "0", "2">> }

FormTimes ==
    { NULL, <<>>, TimeStr(14, 30), <<"0", "9">>, TimeStr(25, 99),
      <<"a", "b", ":", "c", "d">> }

AllBodies ==
    {Body(Run, Oslo, NO, d, t) : d \in FormDates \cup OddDates, t \in FormTimes}
    \cup {Body(a, c, k, DateStr(2024, 2, 29), TimeStr(14, 30)) :
            a \in {Run, <<>>, NULL}, c \in {Oslo, <<>>}, k \in {NO, NULL}}

\* The bodies of the full application's runs: the three dates of the
\* ordering example, one of them twice (with and without a time), an
\* impossible date and an unparseable one.
SampleBodies ==
    { Body(Run, Oslo, NO, DateStr(2024, 3, 1), NULL),
      Body(Run, Oslo, NO, DateStr(2024, 1, 15), NULL),
      Body(Run, Oslo, NO, DateStr(2024, 2, 10), TimeStr(14, 30)),
      Body(Run, Oslo, NO, DateStr(2024, 2, 10), NULL),
      Body(Run, <<>>, NO, <<"a", "b", "c">>, NULL) }

\* The bodies that fill the store for the weather lookups.
WeatherBodies ==
    { Body(Run, Oslo, NO, DateStr(2024, 3, 1), NULL),
      Body(Run, Oslo, NO, DateStr(2024, 2, 10), TimeStr(14, 30)) }

\* ------------------------------------------------------------------------
\* State
\* ------------------------------------------------------------------------

VARIABLES
    readyState,   \* mongoose.connection.readyState
    apiKey,       \* whether process.env.OPENWEATHER_API_KEY is set
    store,        \* the tasks collection, in insertion (natural) order
    nextId,       \* the next _id the collection hands out
    req,          \* the last request of /tasks, /add, /delete/:id
    res,          \* the response to it
    w             \* the /weather/:taskId lookup in progress

vars == <<readyState, apiKey, store, nextId, req, res, w>>

MaxIds == 3          \* documents created in a run of the full application
MaxCreates == 1      \* documents created in a run of the create handler
BadId == 0           \* a req.params id that is no ObjectId
Connected == 1       \* readyState of an open connection

ReadyStates == {0, 1, 2}

Ids == 1..MaxIds

NoReq == [op |-> "none", body |-> Body(NULL, NULL, NULL, NULL, NULL), id |-> BadId]

\* A response: what the client receives (kind, target, tasks, error), and
\* of the handler's run the branch it took (cause), the store calls it
\* issued (storeOps) and the _id of the document it saved (created).
NoRes == [kind |-> "none", target |-> "", tasks |-> <<>>, error |-> "null",
          cause |-> "none", storeOps |-> 0, created |-> BadId]

Render(view, tasks, error, cause, ops) ==
    [kind |-> "render", target |-> view, tasks |-> tasks, error |-> error,
     cause |-> cause, storeOps |-> ops, created |-> BadId]

Redirect(url, cause, ops, created) ==
    [kind |-> "redirect", target |-> url, tasks |-> <<>>, error |-> "null",
     cause |-> cause, storeOps |-> ops, created |-> created]

Idle == [pc |-> "idle", id |-> BadId, task |-> NULL, storeOps |-> 0,
         requests |-> 0, cause |-> "none", success |-> FALSE, error |-> "null"]

Init ==
    /\ readyState \in ReadyStates
    /\ apiKey \in BOOLEAN
    /\ store = <<>>
    /\ nextId = 1
    /\ req = NoReq
    /\ res = NoRes
    /\ w = Idle

\* ------------------------------------------------------------------------
\* The connection (mongoose.connect and the driver's reconnects)
\* ------------------------------------------------------------------------

ConnectionChange ==
    /\ \E s \in ReadyStates : s # readyState /\ readyState' = s
    /\ UNCHANGED <<apiKey, store, nextId, req, res, w>>

\* ------------------------------------------------------------------------
\* GET /tasks
\* ------------------------------------------------------------------------

DateLeq(a, b) == a.day < b.day \/ (a.day = b.day /\ a.min <= b.min)

\* Task.find().sort({ taskDate: 1 }): ascending by taskDate, documents of
\* equal taskDate in natural order.
RECURSIVE InsertByDate(_, _)
InsertByDate(sorted, t) ==
    IF sorted = <<>> THEN <<t>>
    ELSE IF DateLeq(sorted[Len(sorted)].taskDate, t.taskDate) THEN Append(sorted, t)
    ELSE Append(InsertByDate(SubSeq(sorted, 1, Len(sorted) - 1), t),
                sorted[Len(sorted)])

\* The query without its sort.
NaturalOrder(tasks) == tasks

RECURSIVE SortByDate(_)
SortByDate(tasks) ==
    IF tasks = <<>> THEN <<>>
    ELSE InsertByDate(SortByDate(SubSeq(tasks, 1, Len(tasks) - 1)), tasks[Len(tasks)])

DbFailed == "Database connection failed. Please try again later."

\* fails: the query is rejected although the connection was open.
GetTasks(fails) ==
    /\ req' = [NoReq EXCEPT !.op = "list"]
    /\ res' = IF readyState # Connected
              THEN Render("tasks", <<>>, DbFailed, "store-unavailable", 0)
              ELSE IF fails THEN Render("tasks", <<>>, DbFailed, "store-error", 1)
              ELSE Render("tasks", SortByDate(store), "null", "ok", 1)
    /\ UNCHANGED <<readyState, apiKey, store, nextId, w>>

\* ------------------------------------------------------------------------
\* POST /add
\* ------------------------------------------------------------------------

\* new Task({...}) of the handler, before an _id is known to the collection.
NewTask(body) ==
    [id |-> BadId,
     activity |-> body.activity, city |-> body.city, state |-> body.state,
     country |-> body.country,
     taskDate |-> TaskDateObj(body),
     taskTime |-> OrElse(body.taskTime, NULL)]

\* A schema whose taskDate is not checked.
SchemaValidNoDate(t) == Truthy(t.activity) /\ Truthy(t.city) /\ Truthy(t.country)

\* Validation of a document against taskSchema on save(): a required String
\* may be neither missing nor empty, the required Date must cast to a valid
\* Date.
SchemaValid(t) ==
    /\ Truthy(t.activity)
    /\ Truthy(t.city)
    /\ Truthy(t.country)
    /\ ~t.taskDate.nan

AddFailed == "Failed to add task. Database may be unavailable."

\* The catch block of the handler, whatever was thrown.
AddError(cause, ops) == Render("add-task", <<>>, AddFailed, cause, ops)

\* fails: the insert is rejected although the connection was open.
PostAdd(body, fails) ==
    /\ req' = [NoReq EXCEPT !.op = "add", !.body = body]
    /\ IF readyState # Connected
       THEN res' = AddError("store-unavailable", 0) /\ UNCHANGED <<store, nextId>>
       ELSE IF body.taskDate = NULL        \* undefined.split throws
       THEN res' = AddError("validation", 0) /\ UNCHANGED <<store, nextId>>
       ELSE LET newTask == NewTask(body)
            IN IF ~SchemaValid(newTask)
               THEN res' = AddError("validation", 0) /\ UNCHANGED <<store, nextId>>
               ELSE IF fails
               THEN res' = AddError("store-error", 1) /\ UNCHANGED <<store, nextId>>
               ELSE /\ store' = Append(store, [newTask EXCEPT !.id = nextId])
                    /\ nextId' = nextId + 1
                    /\ res' = Redirect("/tasks", "ok", 1, nextId)
    /\ UNCHANGED <<readyState, apiKey, w>>

\* ------------------------------------------------------------------------
\* POST /delete/:id
\* ------------------------------------------------------------------------

RECURSIVE Without(_, _)
Without(tasks, id) ==
    IF tasks = <<>> THEN <<>>
    ELSE IF Head(tasks).id = id THEN Tail(tasks)
    ELSE <<Head(tasks)>> \o Without(Tail(tasks), id)

\* A delete that takes the first document, whatever its _id.
DeleteFirst(tasks, id) == IF tasks = <<>> THEN <<>> ELSE Tail(tasks)

\* Task.findByIdAndDelete(id): the document of that _id, if any, is removed.
FindByIdAndDelete(tasks, id) == Without(tasks, id)

\* The handler without its readyState guard.
PostDeleteUnguarded(id, fails) ==
    /\ req' = [NoReq EXCEPT !.op = "delete", !.id = id]
    /\ IF id = BadId \/ fails
       THEN res' = Redirect("/tasks", "store-error", 1, BadId) /\ UNCHANGED store
       ELSE /\ store' = FindByIdAndDelete(store, id)
            /\ res' = Redirect("/tasks", "ok", 1, BadId)
    /\ UNCHANGED <<readyState, apiKey, nextId, w>>

\* fails: the id does not cast to an ObjectId, or the command is rejected
\* although the connection was open.
PostDelete(id, fails) ==
    /\ req' = [NoReq EXCEPT !.op = "delete", !.id = id]
    /\ IF readyState # Connected
       THEN /\ res' = Redirect("/tasks?error=database", "store-unavailable", 0, BadId)
            /\ UNCHANGED store
       ELSE IF id = BadId \/ fails
       THEN res' = Redirect("/tasks", "store-error", 1, BadId) /\ UNCHANGED store
       ELSE /\ store' = FindByIdAndDelete(store, id)
            /\ res' = Redirect("/tasks", "ok", 1, BadId)
    /\ UNCHANGED <<readyState, apiKey, nextId, w>>

\* ------------------------------------------------------------------------
\* GET /weather/:taskId
\* ------------------------------------------------------------------------

\* Task.findById(id): the documents of that _id (none or one).
FindById(tasks, id) == SelectSeq(tasks, LAMBDA t : t.id = id)

\* What the catch block reads of a thrown error: error.code, error.name,
\* error.response.status (0: no error.response) and whether error.request
\* is set.
Err(code, name, status, request) ==
    [code |-> code, name |-> name, status |-> status, request |-> request]

\* A rejected store call (CastError, MongoError) or a TypeError thrown while
\* the payload is mapped: no code of axios, no response, no request.
PlainError(name) == Err("null", name, 0, FALSE)

\* axios on a status outside 2xx.
StatusError(status) == Err("ERR_BAD_REQUEST", "AxiosError", status, TRUE)

\* axios when no response arrives (connection refused, DNS failure).
NetworkError == Err("ECONNREFUSED", "Error", 0, TRUE)

\* axios when its own timeout option expires.
TimeoutError == Err("ECONNABORTED", "AxiosError", 0, TRUE)

\* axios when config.signal aborts: a CanceledError with code ERR_CANCELED
\* (axios 0.27 and later), or a bare Cancel object (axios 0.22 to 0.26).
AbortRejections ==
    { Err("ERR_CANCELED", "CanceledError", 0, TRUE),
      Err("null", "null", 0, FALSE) }

TimedOut == "Weather request timed out. Please try again."
LocationNotFound == "Location not found. Please check the city and country."
AuthFailed == "Weather service authentication failed."
RateLimited == "Too many weather requests. Please wait a moment."
NoResponse == "No response from weather service. Please check your connection."
CouldNotFetch == "Could not fetch weather data for this location"
ConfigError == "Weather service configuration error"
TaskNotFound == "Task not found"
DbNotAvailable == "Database not available"

\* `Weather service error: ${error.response.status}`
ServiceError(status) == "Weather service error: " \o ToString(status)

\* errorMessage of the catch block.
ErrorMessage(error) ==
    IF error.code = "ECONNABORTED" \/ error.name = "AbortError" THEN TimedOut
    ELSE IF error.status # 0
    THEN IF error.status = 404 THEN LocationNotFound
         ELSE IF error.status = 401 THEN AuthFailed
         ELSE IF error.status = 429 THEN RateLimited
         ELSE ServiceError(error.status)
    ELSE IF error.request THEN NoResponse
    ELSE CouldNotFetch

\* res.json({ success: false, error }) ends the lookup.
Failed(cause, message) ==
    [w EXCEPT !.pc = "done", !.cause = cause, !.success = FALSE, !.error = message]

Caught(cause, error) == Failed(cause, ErrorMessage(error))

\* The handler up to its first await.
WeatherGet(id) ==
    /\ w.pc = "idle"
    /\ w' = IF readyState # Connected
            THEN [Failed("store-unavailable", DbNotAvailable) EXCEPT !.id = id]
            ELSE [w EXCEPT !.pc = "findById", !.id = id, !.storeOps = 1]
    /\ UNCHANGED <<readyState, apiKey, store, nextId, req, res>>

\* The handler that issues the provider request before it looks at the
\* credential.
WeatherFindByIdKeyLate(fails) ==
    /\ w.pc = "findById"
    /\ LET task == FindById(store, w.id)
       IN w' = IF fails THEN Caught("store-error", PlainError("MongoError"))
               ELSE IF w.id = BadId THEN Caught("not-found", PlainError("CastError"))
               ELSE IF task = <<>> THEN Failed("not-found", TaskNotFound)
               ELSE IF ~apiKey
               THEN [Failed("no-key", ConfigError) EXCEPT !.task = task,
                                                          !.requests = @ + 1]
               ELSE [w EXCEPT !.pc = "requested", !.task = task,
                              !.requests = @ + 1]
    /\ UNCHANGED <<readyState, apiKey, store, nextId, req, res>>

\* The handler from the answer of Task.findById to axios.get.
\* fails: the query is rejected although the connection was open.  An id
\* that does not cast to an ObjectId (the id of no task) rejects it too.
WeatherFindById(fails) ==
    /\ w.pc = "findById"
    /\ LET task == FindById(store, w.id)
       IN w' = IF fails THEN Caught("store-error", PlainError("MongoError"))
               ELSE IF w.id = BadId THEN Caught("not-found", PlainError("CastError"))
               ELSE IF task = <<>> THEN Failed("not-found", TaskNotFound)
               ELSE IF ~apiKey THEN Failed("no-key", ConfigError)
               ELSE [w EXCEPT !.pc = "requested", !.task = task,
                              !.requests = @ + 1]
    /\ UNCHANGED <<readyState, apiKey, store, nextId, req, res>>

ProviderStatuses == {200, 400, 401, 404, 429, 500}

\* The provider answers: a 2xx payload is mapped into the weather view (a
\* payload without the fields read throws a TypeError), any other status
\* rejects axios.get.
ProviderResponds(status, wellFormed) ==
    /\ w.pc = "requested"
    /\ w' = IF status # 200 THEN Caught("status", StatusError(status))
            ELSE IF ~wellFormed THEN Caught("bad-payload", PlainError("TypeError"))
            ELSE [w EXCEPT !.pc = "done", !.cause = "ok", !.success = TRUE]
    /\ UNCHANGED <<readyState, apiKey, store, nextId, req, res>>

\* No response arrives and the connection fails.
NetworkFailure ==
    /\ w.pc = "requested"
    /\ w' = Caught("no-response", NetworkError)
    /\ UNCHANGED <<readyState, apiKey, store, nextId, req, res>>

\* No response within 10 s: the timeout option of axios.get expires first.
AxiosTimeout ==
    /\ w.pc = "requested"
    /\ w' = Caught("timeout", TimeoutError)
    /\ UNCHANGED <<readyState, apiKey, store, nextId, req, res>>

\* No response within 10 s: the setTimeout of the handler expires first and
\* controller.abort() cancels the request.
AbortTimeout(rejection) ==
    /\ w.pc = "requested"
    /\ w' = Caught("timeout", rejection)
    /\ UNCHANGED <<readyState, apiKey, store, nextId, req, res>>

\* The response is sent; the next lookup may start.
WeatherEnd ==
    /\ w.pc = "done"
    /\ w' = Idle
    /\ UNCHANGED <<readyState, apiKey, store, nextId, req, res>>

\* ------------------------------------------------------------------------
\* Specifications
\* ------------------------------------------------------------------------

\* The task handlers, bodies of SampleBodies.
Next ==
    \/ ConnectionChange
    \/ \E fails \in BOOLEAN : GetTasks(fails)
    \/ \E body \in SampleBodies, fails \in BOOLEAN :
          nextId <= MaxIds /\ PostAdd(body, fails)
    \/ \E id \in Ids \cup {BadId}, fails \in BOOLEAN : PostDelete(id, fails)

\* The task handlers never read the provider credential.
InitTasks == Init /\ apiKey

Spec == InitTasks /\ [][Next]_vars

\* The weather lookup, among the task handlers that run beside it.
NextWeather ==
    \/ ConnectionChange
    \/ GetTasks(FALSE)
    \/ \E body \in WeatherBodies : nextId <= MaxIds /\ PostAdd(body, FALSE)
    \/ \E id \in Ids : PostDelete(id, FALSE)
    \/ \E id \in Ids \cup {BadId} : WeatherGet(id)
    \/ \E fails \in BOOLEAN : WeatherFindById(fails)
    \/ \E status \in ProviderStatuses, wellFormed \in BOOLEAN :
          ProviderResponds(status, wellFormed)
    \/ NetworkFailure
    \/ AxiosTimeout
    \/ \E rejection \in AbortRejections : AbortTimeout(rejection)
    \/ WeatherEnd

SpecWeather == Init /\ [][NextWeather]_vars

\* The create handler on every body of AllBodies, and with a rejected insert
\* on the bodies of SampleBodies, with the removals and connection changes
\* that may come between two creates.
NextCreate ==
    \/ ConnectionChange
    \/ \E body \in AllBodies : nextId <= MaxCreates /\ PostAdd(body, FALSE)
    \/ \E body \in SampleBodies : nextId <= MaxCreates /\ PostAdd(body, TRUE)
    \/ \E id \in 1..MaxCreates : PostDelete(id, FALSE)

SpecCreate == InitTasks /\ [][NextCreate]_vars

\* ------------------------------------------------------------------------
\* Reference notions of the properties: the calendar, read off the string
\* position by position, and the day number by the era-based civil-calendar
\* count.
\* ------------------------------------------------------------------------

AllDigits(s, positions) == \A i \in positions : IsDigit(s[i])

TwoDigits(s, i) == 10 * DigitVal(s[i]) + DigitVal(s[i + 1])

FourDigits(s, i) == 100 * TwoDigits(s, i) + TwoDigits(s, i + 2)

DaysInMonth(y, m) ==
    IF m = 2
    THEN (IF (y % 4 = 0 /\ y % 100 # 0) \/ y % 400 = 0 THEN 29 ELSE 28)
    ELSE IF m \in {4, 6, 9, 11} THEN 30 ELSE 31

\* s is YYYY-MM-DD and names a day of the calendar.
WellFormedDate(s) ==
    /\ Len(s) = 10
    /\ s[5] = "-" /\ s[8] = "-"
    /\ AllDigits(s, {1, 2, 3, 4, 6, 7, 9, 10})
    /\ TwoDigits(s, 6) \in 1..12
    /\ TwoDigits(s, 9) \in 1..DaysInMonth(FourDigits(s, 1), TwoDigits(s, 6))

\* t is HH:MM, or HH with the minutes part omitted.
WellFormedTime(t) ==
    \/ /\ Len(t) = 5 /\ t[3] = ":" /\ AllDigits(t, {1, 2, 4, 5})
       /\ TwoDigits(t, 1) < 24 /\ TwoDigits(t, 4) < 60
    \/ /\ Len(t) = 2 /\ AllDigits(t, {1, 2}) /\ TwoDigits(t, 1) < 24

NoTime(t) == t = NULL \/ t = <<>>

\* Days from 1970-01-01 to y-m-d, counted by 400-year eras from March.
CivilDay(y, m, d) ==
    LET yy == IF m <= 2 THEN y - 1 ELSE y
        era == yy \div 400
        yoe == yy - era * 400
        mp == (m + 9) % 12
        doy == ((153 * mp + 2) \div 5) + d - 1
        doe == yoe * 365 + (yoe \div 4) - (yoe \div 100) + doy
    IN era * 146097 + doe - 719468

\* The UTC instant a well-formed date and time name.
ExpectedInstant(s, t) ==
    [nan |-> FALSE,
     day |-> CivilDay(FourDigits(s, 1), TwoDigits(s, 6), TwoDigits(s, 9)),
     min |-> IF NoTime(t) THEN 0
             ELSE IF Len(t) = 2 THEN 60 * TwoDigits(t, 1)
             ELSE 60 * TwoDigits(t, 1) + TwoDigits(t, 4)]

\* The piece starts (after white space and a sign) with a decimal digit.
StartsWithNumber(p) ==
    \E k \in 1..Len(p) :
        /\ IsDigit(p[k])
        /\ \A j \in 1..(k - 1) : p[j] = " " \/ (j = k - 1 /\ p[j] \in {"-", "+"})

Least(S) == CHOOSE x \in S : \A y \in S : x <= y

\* The first three pieces of s between the separators, when there are two
\* separators or more: the positions of the separators cut them out.
FirstThree(s, sep) ==
    LET at == {i \in 1..Len(s) : s[i] = sep}
        a == Least(at)
        b == Least(at \ {a})
        c == Least((at \ {a, b}) \cup {Len(s) + 1})
    IN <<SubSeq(s, 1, a - 1), SubSeq(s, a + 1, b - 1), SubSeq(s, b + 1, c - 1)>>

\* No year, month or day can be read from the date.
UnparseableDate(s) ==
    \/ s = NULL
    \/ Cardinality({i \in 1..Len(s) : s[i] = "-"}) < 2
    \/ \E n \in 1..3 : ~StartsWithNumber(FirstThree(s, "-")[n])

\* A time is given and no hours, or no minutes, can be read from it: what
\* stands before the first colon, or what stands behind it when anything
\* does, is no number.
UnparseableTime(t) ==
    /\ ~NoTime(t)
    /\ LET at == {i \in 1..Len(t) : t[i] = ":"}
           a == Least(at \cup {Len(t) + 1})
           b == Least((at \ {a}) \cup {Len(t) + 1})
       IN \/ ~StartsWithNumber(SubSeq(t, 1, a - 1))
          \/ (a + 1 <= b - 1 /\ ~StartsWithNumber(SubSeq(t, a + 1, b - 1)))

MissingField(body) ==
    \E f \in {body.activity, body.city, body.country} : f = NULL \/ f = <<>>

\* ------------------------------------------------------------------------
\* Properties of POST /add (SpecCreate)
\* ------------------------------------------------------------------------

\* C1: a create whose date is not a YYYY-MM-DD day of the calendar ends in
\* the error view and leaves the persisted tasks as they were.
C1_MalformedDateRejected ==
    [][(req'.op = "add" /\ ~WellFormedDate(req'.body.taskDate))
         => (store' = store /\ res'.kind = "render" /\ res'.created = BadId)]_vars

\* C2: a successful create of a well-formed date, with a well-formed time or
\* none, persists a task whose taskDate is the UTC instant the inputs name
\* (midnight without a time, minute 0 without a minutes part).
C2_StoredInstant ==
    (/\ req.op = "add" /\ res.created # BadId
     /\ WellFormedDate(req.body.taskDate)
     /\ (NoTime(req.body.taskTime) \/ WellFormedTime(req.body.taskTime)))
    => \A i \in 1..Len(store) :
          store[i].id = res.created
          => store[i].taskDate = ExpectedInstant(req.body.taskDate, req.body.taskTime)

StoreCauses == {"store-unavailable", "store-error"}

\* What the client receives of a response.
Outcome(r) == <<r.kind, r.target, r.tasks, r.error>>

\* C9: a create that failed on the store is not answered as a create that
\* failed validation is.
C9_StoreFailureDistinct ==
    [][(/\ req.op = "add" /\ res.cause = "validation"
        /\ req'.op = "add" /\ res'.cause \in StoreCauses)
         => Outcome(res') # Outcome(res)]_vars

ValidInstant(d) == ~d.nan /\ d.day \in Int /\ d.min \in 0..1439

\* C10: every persisted task has activity, city and country non-empty and a
\* valid taskDate, and a create with a required field missing or empty, or
\* with an unparseable date or time, ends in the error view and stores
\* nothing.
C10_StoredTasksValid ==
    /\ [](\A i \in 1..Len(store) :
            /\ Truthy(store[i].activity)
            /\ Truthy(store[i].city)
            /\ Truthy(store[i].country)
            /\ ValidInstant(store[i].taskDate))
    /\ [][(/\ req'.op = "add"
           /\ \/ MissingField(req'.body)
              \/ UnparseableDate(req'.body.taskDate)
              \/ UnparseableTime(req'.body.taskTime))
            => (/\ store' = store
                /\ res'.kind = "render" /\ res'.target = "add-task"
                /\ res'.error # "null")]_vars

\* A create of an unparseable time was answered with the error view while
\* the connection was open.
C10_Witness ==
    /\ req.op = "add"
    /\ UnparseableTime(req.body.taskTime)
    /\ ~UnparseableDate(req.body.taskDate)
    /\ res.cause = "validation"

\* ------------------------------------------------------------------------
\* Properties of GET /tasks and POST /delete/:id (Spec)
\* ------------------------------------------------------------------------

Minute(d) == d.day * 1440 + d.min

\* C3: a list answered without the error flag holds exactly the persisted
\* tasks, each once, in non-decreasing taskDate order; on an empty store it
\* is the empty sequence.
C3_ListSorted ==
    (req.op = "list" /\ res.error = "null")
    => /\ res.kind = "render" /\ res.target = "tasks"
       /\ Len(res.tasks) = Len(store)
       /\ \A i \in 1..Len(store) :
             Cardinality({j \in 1..Len(res.tasks) : res.tasks[j] = store[i]}) = 1
       /\ \A j \in 1..Len(res.tasks), k \in 1..Len(res.tasks) :
             j < k => Minute(res.tasks[j].taskDate) <= Minute(res.tasks[k].taskDate)

\* The ordering example: 2024-03-01, 2024-01-15 and 2024-02-10, inserted in
\* that order, are listed 01-15, 02-10, 03-01.
C3_Witness ==
    /\ req.op = "list" /\ res.cause = "ok"
    /\ Len(store) = 3
    /\ <<store[1].taskDate.day, store[2].taskDate.day, store[3].taskDate.day>>
         = <<CivilDay(2024, 3, 1), CivilDay(2024, 1, 15), CivilDay(2024, 2, 10)>>
    /\ <<res.tasks[1].taskDate.day, res.tasks[2].taskDate.day,
         res.tasks[3].taskDate.day>>
         = <<CivilDay(2024, 1, 15), CivilDay(2024, 2, 10), CivilDay(2024, 3, 1)>>

StoredIds(tasks) == {tasks[i].id : i \in 1..Len(tasks)}

\* C4: with the connection open a remove answers with the redirect to the
\* list whether or not the id is in the store, and never with anything but
\* a redirect; it leaves every other task in place, and none at all when the
\* id is absent; after a remove that went through the id is absent, so a
\* second remove of it changes nothing.
C4_RemoveIdempotent ==
    [][(req'.op = "delete" /\ readyState' = readyState)
         => /\ res'.kind = "redirect"
            /\ readyState = Connected => res'.target = "/tasks"
            /\ \/ store' = store
               \/ store' = SelectSeq(store, LAMBDA t : t.id # req'.id)
            /\ req'.id \notin StoredIds(store) => store' = store
            /\ res'.cause = "ok" => req'.id \notin StoredIds(store')]_vars

\* A remove of an id that an earlier remove had taken out of a store that
\* still holds other tasks.
C4_Witness ==
    /\ req.op = "delete" /\ res.cause = "ok" /\ res.target = "/tasks"
    /\ req.id \in 1..(nextId - 1)
    /\ req.id \notin StoredIds(store)
    /\ Len(store) = nextId - 2
    /\ Len(store) >= 1

\* ------------------------------------------------------------------------
\* Properties of GET /weather/:taskId and of the readiness guard
\* (SpecWeather)
\* ------------------------------------------------------------------------

ListedReasons ==
    {TimedOut, LocationNotFound, AuthFailed, RateLimited, NoResponse,
     ConfigError, TaskNotFound}
    \cup {ServiceError(status) : status \in ProviderStatuses \ {200, 404, 401, 429}}

\* C5: an unsuccessful lookup answers with one of the eight listed reasons,
\* the one of its failure kind.
C5_ListedReasonsOnly ==
    (w.pc = "done" /\ ~w.success)
    => /\ w.error \in ListedReasons
       /\ w.cause = "timeout" => w.error = TimedOut
       /\ w.cause = "no-response" => w.error = NoResponse
       /\ w.cause = "no-key" => w.error = ConfigError
       /\ w.cause = "not-found" => w.error = TaskNotFound

\* C6: a lookup that ends because the provider did not answer within the
\* bound ends unsuccessful with the timeout reason, whichever timer fired.
C6_TimeoutReason ==
    (w.pc = "done" /\ w.cause = "timeout")
    => (~w.success /\ w.error = TimedOut)

\* C7: a lookup issues at most one provider request, and none unless the
\* task was found and the credential is set.
C7_NoRequestBeforeChecks ==
    /\ w.requests <= 1
    /\ w.requests = 1 => (apiKey /\ w.task # <<>>)
    /\ (w.pc = "done" /\ w.cause \in {"not-found", "no-key", "store-unavailable"})
          => w.requests = 0

\* A lookup of a stored task ended for want of the credential.
C7_Witness ==
    /\ w.pc = "done" /\ w.cause = "no-key" /\ w.requests = 0
    /\ w.id \in StoredIds(store)

\* C8: a handler that starts while readyState is not 1 issues no store call,
\* changes no task and answers degraded: the list empty with the error flag,
\* the create with the error view, the remove with a redirect, the lookup
\* with success false.
C8_DegradedWhenDisconnected ==
    [][(readyState # Connected /\ readyState' = readyState)
         => /\ store' = store
            /\ (<<req', res'>> # <<req, res>>)
                 => /\ res'.storeOps = 0
                    /\ req'.op = "list"
                         => (res'.kind = "render" /\ res'.tasks = <<>>
                             /\ res'.error # "null")
                    /\ req'.op = "add"
                         => (res'.kind = "render" /\ res'.target = "add-task"
                             /\ res'.error # "null" /\ res'.created = BadId)
                    /\ req'.op = "delete" => res'.kind = "redirect"
            /\ (w.pc = "idle" /\ w'.pc # "idle")
                 => (w'.pc = "done" /\ ~w'.success /\ w'.storeOps = 0
                     /\ w'.requests = 0)]_vars

\* A remove arrived while the connection was down and the store held a task
\* of that id.
C8_Witness ==
    /\ readyState # Connected
    /\ req.op = "delete" /\ res.cause = "store-unavailable"
    /\ req.id \in StoredIds(store)
    /\ w.pc = "done" /\ w.cause = "store-unavailable"

====
